---------------------------- MODULE Spec2Model ----------------------------
(***************************************************************************)
(* A model of the two directory-to-Markdown converters of this repository, *)
(* src/directorytomarkdown.py ("dtm") and src/tollm.py ("tollm").  Both    *)
(* walk a directory tree, filter the files by name and extension, read the *)
(* kept files with a chain of decode attempts and write one Markdown file. *)
(*                                                                         *)
(* Text is a sequence of Unicode code points and a file is a sequence of   *)
(* bytes, both written as tuples of integers: <<46, 112, 121>> is ".py".   *)
(* The platform is POSIX: os.sep is "/" and a text-mode write leaves "\n"  *)
(* alone.                                                                  *)
(***************************************************************************)
EXTENDS Integers, Sequences, FiniteSets, TLC

(***************************************************************************)
(* Configuration: the same four literals in both source files.             *)
(***************************************************************************)
INCLUDED_EXTENSIONS ==
  { <<46, 112, 121>>,  \* .py
    <<46, 106, 115>>,  \* .js
    <<46, 106, 115, 120>>,  \* .jsx
    <<46, 116, 115>>,  \* .ts
    <<46, 116, 115, 120>>,  \* .tsx
    <<46, 104, 116, 109, 108>>,  \* .html
    <<46, 104, 116, 109>>,  \* .htm
    <<46, 99, 115, 115>>,  \* .css
    <<46, 115, 99, 115, 115>>,  \* .scss
    <<46, 106, 97, 118, 97>>,  \* .java
    <<46, 107, 116>>,  \* .kt
    <<46, 115, 119, 105, 102, 116>>,  \* .swift
    <<46, 99>>,  \* .c
    <<46, 99, 112, 112>>,  \* .cpp
    <<46, 104>>,  \* .h
    <<46, 104, 112, 112>>,  \* .hpp
    <<46, 99, 115>>,  \* .cs
    <<46, 103, 111>>,  \* .go
    <<46, 112, 104, 112>>,  \* .php
    <<46, 114, 98>>,  \* .rb
    <<46, 112, 108>>,  \* .pl
    <<46, 115, 104>>,  \* .sh
    <<46, 98, 97, 116>>,  \* .bat
    <<46, 112, 115, 49>>,  \* .ps1
    <<46, 106, 115, 111, 110>>,  \* .json
    <<46, 121, 97, 109, 108>>,  \* .yaml
    <<46, 121, 109, 108>>,  \* .yml
    <<46, 120, 109, 108>>,  \* .xml
    <<46, 116, 111, 109, 108>>,  \* .toml
    <<46, 105, 110, 105>>,  \* .ini
    <<46, 99, 102, 103>>,  \* .cfg
    <<46, 109, 100>>,  \* .md
    <<46, 116, 120, 116>>,  \* .txt
    <<46, 114, 115, 116>>,  \* .rst
    <<46, 116, 101, 120>>,  \* .tex
    <<46, 115, 113, 108>>,  \* .sql
    <<46, 100, 111, 99, 107, 101, 114, 102, 105, 108, 101>>,  \* .dockerfile
    <<68, 111, 99, 107, 101, 114, 102, 105, 108, 101>>,  \* Dockerfile
    <<46, 101, 110, 118>>,  \* .env
    <<46, 103, 105, 116, 105, 103, 110, 111, 114, 101>>,  \* .gitignore
    <<46, 103, 105, 116, 97, 116, 116, 114, 105, 98, 117, 116, 101, 115>>  \* .gitattributes
  }

EXCLUDED_DIRECTORIES ==
  { <<46, 103, 105, 116>>,  \* .git
    <<110, 111, 100, 101, 95, 109, 111, 100, 117, 108, 101, 115>>,  \* node_modules
    <<118, 101, 110, 118>>,  \* venv
    <<46, 118, 101, 110, 118>>,  \* .venv
    <<101, 110, 118>>,  \* env
    <<46, 101, 110, 118>>,  \* .env
    <<95, 95, 112, 121, 99, 97, 99, 104, 101, 95, 95>>,  \* __pycache__
    <<100, 105, 115, 116>>,  \* dist
    <<98, 117, 105, 108, 100>>,  \* build
    <<116, 97, 114, 103, 101, 116>>,  \* target
    <<111, 117, 116>>,  \* out
    <<46, 118, 115, 99, 111, 100, 101>>,  \* .vscode
    <<46, 105, 100, 101, 97>>,  \* .idea
    <<46, 112, 114, 111, 106, 101, 99, 116>>,  \* .project
    <<46, 115, 101, 116, 116, 105, 110, 103, 115>>,  \* .settings
    <<118, 101, 110, 100, 111, 114>>,  \* vendor
    <<80, 111, 100, 115>>,  \* Pods
    <<67, 97, 114, 116, 104, 97, 103, 101>>  \* Carthage
  }

EXCLUDED_FILES_OR_EXTENSIONS ==
  { <<46, 108, 111, 103>>,  \* .log
    <<46, 116, 109, 112>>,  \* .tmp
    <<46, 116, 101, 109, 112>>,  \* .temp
    <<46, 115, 119, 112>>,  \* .swp
    <<46, 98, 97, 107>>,  \* .bak
    <<46, 111, 108, 100>>,  \* .old
    <<46, 68, 83, 95, 83, 116, 111, 114, 101>>,  \* .DS_Store
    <<84, 104, 117, 109, 98, 115, 46, 100, 98>>,  \* Thumbs.db
    <<46, 108, 111, 99, 107>>,  \* .lock
    <<112, 97, 99, 107, 97, 103, 101, 45, 108, 111, 99, 107, 46, 106, 115, 111, 110>>,  \* package-lock.json
    <<121, 97, 114, 110, 46, 108, 111, 99, 107>>,  \* yarn.lock
    <<99, 111, 109, 112, 111, 115, 101, 114, 46, 108, 111, 99, 107>>,  \* composer.lock
    <<80, 105, 112, 102, 105, 108, 101, 46, 108, 111, 99, 107>>,  \* Pipfile.lock
    <<46, 112, 110, 103>>,  \* .png
    <<46, 106, 112, 103>>,  \* .jpg
    <<46, 106, 112, 101, 103>>,  \* .jpeg
    <<46, 103, 105, 102>>,  \* .gif
    <<46, 98, 109, 112>>,  \* .bmp
    <<46, 105, 99, 111>>,  \* .ico
    <<46, 115, 118, 103>>,  \* .svg
    <<46, 112, 100, 102>>,  \* .pdf
    <<46, 100, 111, 99>>,  \* .doc
    <<46, 100, 111, 99, 120>>,  \* .docx
    <<46, 120, 108, 115>>,  \* .xls
    <<46, 120, 108, 115, 120>>,  \* .xlsx
    <<46, 112, 112, 116>>,  \* .ppt
    <<46, 112, 112, 116, 120>>,  \* .pptx
    <<46, 122, 105, 112>>,  \* .zip
    <<46, 116, 97, 114>>,  \* .tar
    <<46, 103, 122>>,  \* .gz
    <<46, 114, 97, 114>>,  \* .rar
    <<46, 55, 122>>,  \* .7z
    <<46, 101, 120, 101>>,  \* .exe
    <<46, 100, 108, 108>>,  \* .dll
    <<46, 115, 111>>,  \* .so
    <<46, 100, 121, 108, 105, 98>>,  \* .dylib
    <<46, 106, 97, 114>>,  \* .jar
    <<46, 99, 108, 97, 115, 115>>,  \* .class
    <<46, 112, 121, 99>>,  \* .pyc
    <<46, 111>>,  \* .o
    <<46, 109, 112, 51>>,  \* .mp3
    <<46, 119, 97, 118>>,  \* .wav
    <<46, 109, 112, 52>>,  \* .mp4
    <<46, 109, 111, 118>>,  \* .mov
    <<46, 97, 118, 105>>  \* .avi
  }

LANGUAGE_MAP ==
     (<<46, 112, 121>> :> <<112, 121, 116, 104, 111, 110>>)  \* .py: python
  @@ (<<46, 106, 115>> :> <<106, 97, 118, 97, 115, 99, 114, 105, 112, 116>>)  \* .js: javascript
  @@ (<<46, 106, 115, 120>> :> <<106, 115, 120>>)  \* .jsx: jsx
  @@ (<<46, 116, 115>> :> <<116, 121, 112, 101, 115, 99, 114, 105, 112, 116>>)  \* .ts: typescript
  @@ (<<46, 116, 115, 120>> :> <<116, 115, 120>>)  \* .tsx: tsx
  @@ (<<46, 104, 116, 109, 108>> :> <<104, 116, 109, 108>>)  \* .html: html
  @@ (<<46, 104, 116, 109>> :> <<104, 116, 109, 108>>)  \* .htm: html
  @@ (<<46, 99, 115, 115>> :> <<99, 115, 115>>)  \* .css: css
  @@ (<<46, 115, 99, 115, 115>> :> <<115, 99, 115, 115>>)  \* .scss: scss
  @@ (<<46, 106, 97, 118, 97>> :> <<106, 97, 118, 97>>)  \* .java: java
  @@ (<<46, 107, 116>> :> <<107, 111, 116, 108, 105, 110>>)  \* .kt: kotlin
  @@ (<<46, 115, 119, 105, 102, 116>> :> <<115, 119, 105, 102, 116>>)  \* .swift: swift
  @@ (<<46, 99>> :> <<99>>)  \* .c: c
  @@ (<<46, 99, 112, 112>> :> <<99, 112, 112>>)  \* .cpp: cpp
  @@ (<<46, 104>> :> <<99>>)  \* .h: c
  @@ (<<46, 104, 112, 112>> :> <<99, 112, 112>>)  \* .hpp: cpp
  @@ (<<46, 99, 115>> :> <<99, 115, 104, 97, 114, 112>>)  \* .cs: csharp
  @@ (<<46, 103, 111>> :> <<103, 111>>)  \* .go: go
  @@ (<<46, 112, 104, 112>> :> <<112, 104, 112>>)  \* .php: php
  @@ (<<46, 114, 98>> :> <<114, 117, 98, 121>>)  \* .rb: ruby
  @@ (<<46, 112, 108>> :> <<112, 101, 114, 108>>)  \* .pl: perl
  @@ (<<46, 115, 104>> :> <<98, 97, 115, 104>>)  \* .sh: bash
  @@ (<<46, 98, 97, 116>> :> <<98, 97, 116, 99, 104>>)  \* .bat: batch
  @@ (<<46, 112, 115, 49>> :> <<112, 111, 119, 101, 114, 115, 104, 101, 108, 108>>)  \* .ps1: powershell
  @@ (<<46, 106, 115, 111, 110>> :> <<106, 115, 111, 110>>)  \* .json: json
  @@ (<<46, 121, 97, 109, 108>> :> <<121, 97, 109, 108>>)  \* .yaml: yaml
  @@ (<<46, 121, 109, 108>> :> <<121, 97, 109, 108>>)  \* .yml: yaml
  @@ (<<46, 120, 109, 108>> :> <<120, 109, 108>>)  \* .xml: xml
  @@ (<<46, 116, 111, 109, 108>> :> <<116, 111, 109, 108>>)  \* .toml: toml
  @@ (<<46, 105, 110, 105>> :> <<105, 110, 105>>)  \* .ini: ini
  @@ (<<46, 99, 102, 103>> :> <<105, 110, 105>>)  \* .cfg: ini
  @@ (<<46, 109, 100>> :> <<109, 97, 114, 107, 100, 111, 119, 110>>)  \* .md: markdown
  @@ (<<46, 116, 120, 116>> :> <<116, 101, 120, 116>>)  \* .txt: text
  @@ (<<46, 114, 115, 116>> :> <<114, 115, 116>>)  \* .rst: rst
  @@ (<<46, 116, 101, 120>> :> <<108, 97, 116, 101, 120>>)  \* .tex: latex
  @@ (<<46, 115, 113, 108>> :> <<115, 113, 108>>)  \* .sql: sql
  @@ (<<46, 100, 111, 99, 107, 101, 114, 102, 105, 108, 101>> :> <<100, 111, 99, 107, 101, 114, 102, 105, 108, 101>>)  \* .dockerfile: dockerfile
  @@ (<<68, 111, 99, 107, 101, 114, 102, 105, 108, 101>> :> <<100, 111, 99, 107, 101, 114, 102, 105, 108, 101>>)  \* Dockerfile: dockerfile
  @@ (<<46, 101, 110, 118>> :> <<116, 101, 120, 116>>)  \* .env: text
  @@ (<<46, 103, 105, 116, 105, 103, 110, 111, 114, 101>> :> <<116, 101, 120, 116>>)  \* .gitignore: text
  @@ (<<46, 103, 105, 116, 97, 116, 116, 114, 105, 98, 117, 116, 101, 115>> :> <<116, 101, 120, 116>>)  \* .gitattributes: text

LLM_HEADER_BEFORE_PATH ==
  <<35, 32, 80, 114, 111, 106, 101, 99, 116, 32, 67, 111, 100, 101, 32, 67, 111, 110, 116, 101, 120, 116, 32, 102,
    111, 114, 32, 76, 76, 77, 10, 10, 42, 42, 73, 110, 112, 117, 116, 32, 68, 105, 114, 101, 99, 116, 111, 114,
    121, 32, 83, 99, 97, 110, 110, 101, 100, 58, 42, 42, 32, 96>>

LLM_HEADER_AFTER_PATH ==
  <<96, 10, 10, 42, 42, 80, 117, 114, 112, 111, 115, 101, 58, 42, 42, 32, 84, 104, 105, 115, 32, 100, 111, 99,
    117, 109, 101, 110, 116, 32, 97, 103, 103, 114, 101, 103, 97, 116, 101, 115, 32, 115, 111, 117, 114, 99, 101, 32,
    99, 111, 100, 101, 32, 97, 110, 100, 32, 114, 101, 108, 101, 118, 97, 110, 116, 32, 116, 101, 120, 116, 32, 102,
    105, 108, 101, 115, 32, 102, 114, 111, 109, 32, 116, 104, 101, 32, 115, 112, 101, 99, 105, 102, 105, 101, 100, 32,
    115, 111, 102, 116, 119, 97, 114, 101, 32, 112, 114, 111, 106, 101, 99, 116, 32, 100, 105, 114, 101, 99, 116, 111,
    114, 121, 46, 32, 73, 116, 32, 105, 115, 32, 105, 110, 116, 101, 110, 100, 101, 100, 32, 116, 111, 32, 112, 114,
    111, 118, 105, 100, 101, 32, 99, 111, 110, 116, 101, 120, 116, 32, 102, 111, 114, 32, 97, 32, 76, 97, 114, 103,
    101, 32, 76, 97, 110, 103, 117, 97, 103, 101, 32, 77, 111, 100, 101, 108, 32, 40, 76, 76, 77, 41, 32, 116,
    111, 32, 117, 110, 100, 101, 114, 115, 116, 97, 110, 100, 32, 116, 104, 101, 32, 112, 114, 111, 106, 101, 99, 116,
    46, 10, 10, 42, 42, 83, 116, 114, 117, 99, 116, 117, 114, 101, 58, 42, 42, 10, 42, 32, 70, 105, 108, 101,
    115, 32, 97, 114, 101, 32, 112, 114, 101, 115, 101, 110, 116, 101, 100, 32, 115, 101, 113, 117, 101, 110, 116, 105,
    97, 108, 108, 121, 32, 98, 101, 108, 111, 119, 32, 116, 104, 105, 115, 32, 104, 101, 97, 100, 101, 114, 46, 10,
    42, 32, 69, 97, 99, 104, 32, 102, 105, 108, 101, 39, 115, 32, 99, 111, 110, 116, 101, 110, 116, 32, 105, 115,
    32, 99, 108, 101, 97, 114, 108, 121, 32, 109, 97, 114, 107, 101, 100, 32, 119, 105, 116, 104, 32, 97, 32, 104,
    101, 97, 100, 101, 114, 32, 108, 105, 110, 101, 58, 32, 96, 45, 45, 45, 32, 70, 105, 108, 101, 58, 32, 91,
    114, 101, 108, 97, 116, 105, 118, 101, 47, 112, 97, 116, 104, 47, 116, 111, 47, 102, 105, 108, 101, 93, 32, 45,
    45, 45, 96, 32, 40, 112, 97, 116, 104, 115, 32, 117, 115, 101, 32, 102, 111, 114, 119, 97, 114, 100, 32, 115,
    108, 97, 115, 104, 101, 115, 32, 39, 47, 39, 32, 102, 111, 114, 32, 99, 111, 110, 115, 105, 115, 116, 101, 110,
    99, 121, 41, 46, 10, 42, 32, 84, 104, 101, 32, 99, 111, 110, 116, 101, 110, 116, 32, 111, 102, 32, 101, 97,
    99, 104, 32, 102, 105, 108, 101, 32, 102, 111, 108, 108, 111, 119, 115, 32, 105, 116, 115, 32, 104, 101, 97, 100,
    101, 114, 44, 32, 101, 110, 99, 108, 111, 115, 101, 100, 32, 105, 110, 32, 97, 32, 77, 97, 114, 107, 100, 111,
    119, 110, 32, 102, 101, 110, 99, 101, 100, 32, 99, 111, 100, 101, 32, 98, 108, 111, 99, 107, 32, 40, 96, 96,
    96, 32, 96, 96, 96, 41, 46, 10, 42, 32, 84, 104, 101, 32, 99, 111, 100, 101, 32, 98, 108, 111, 99, 107,
    32, 105, 115, 32, 116, 97, 103, 103, 101, 100, 32, 119, 105, 116, 104, 32, 116, 104, 101, 32, 105, 110, 102, 101,
    114, 114, 101, 100, 32, 112, 114, 111, 103, 114, 97, 109, 109, 105, 110, 103, 32, 108, 97, 110, 103, 117, 97, 103,
    101, 32, 111, 114, 32, 102, 111, 114, 109, 97, 116, 32, 40, 101, 46, 103, 46, 44, 32, 96, 96, 96, 112, 121,
    116, 104, 111, 110, 44, 32, 96, 96, 96, 106, 115, 111, 110, 44, 32, 96, 96, 96, 116, 101, 120, 116, 41, 32,
    119, 104, 101, 114, 101, 32, 112, 111, 115, 115, 105, 98, 108, 101, 46, 10, 10, 42, 42, 73, 110, 115, 116, 114,
    117, 99, 116, 105, 111, 110, 115, 32, 102, 111, 114, 32, 76, 76, 77, 58, 42, 42, 32, 80, 108, 101, 97, 115,
    101, 32, 97, 110, 97, 108, 121, 122, 101, 32, 116, 104, 101, 32, 102, 111, 108, 108, 111, 119, 105, 110, 103, 32,
    102, 105, 108, 101, 32, 99, 111, 110, 116, 101, 110, 116, 115, 32, 116, 111, 32, 117, 110, 100, 101, 114, 115, 116,
    97, 110, 100, 32, 116, 104, 101, 32, 112, 114, 111, 106, 101, 99, 116, 39, 115, 32, 115, 116, 114, 117, 99, 116,
    117, 114, 101, 44, 32, 102, 117, 110, 99, 116, 105, 111, 110, 97, 108, 105, 116, 121, 44, 32, 99, 111, 100, 101,
    32, 108, 111, 103, 105, 99, 44, 32, 97, 110, 100, 32, 99, 111, 110, 102, 105, 103, 117, 114, 97, 116, 105, 111,
    110, 46, 32, 85, 115, 101, 32, 116, 104, 105, 115, 32, 105, 110, 102, 111, 114, 109, 97, 116, 105, 111, 110, 32,
    116, 111, 32, 97, 110, 115, 119, 101, 114, 32, 113, 117, 101, 115, 116, 105, 111, 110, 115, 32, 111, 114, 32, 112,
    101, 114, 102, 111, 114, 109, 32, 116, 97, 115, 107, 115, 32, 114, 101, 108, 97, 116, 101, 100, 32, 116, 111, 32,
    116, 104, 105, 115, 32, 112, 114, 111, 106, 101, 99, 116, 46, 10, 10, 45, 45, 45, 10>>

DefaultConfig ==
  [ included       |-> INCLUDED_EXTENSIONS,
    excluded_dirs  |-> EXCLUDED_DIRECTORIES,
    excluded_files |-> EXCLUDED_FILES_OR_EXTENSIONS,
    language_map   |-> LANGUAGE_MAP ]

(***************************************************************************)
(* Strings.                                                                *)
(***************************************************************************)
Min(a, b) == IF a <= b THEN a ELSE b

RECURSIVE Concat(_)
\* "".join(parts)
Concat(parts) ==
  IF parts = <<>> THEN <<>> ELSE Head(parts) \o Concat(Tail(parts))

\* str.lower() on the ASCII letters
lower(s) == [i \in 1..Len(s) |-> IF s[i] >= 65 /\ s[i] <= 90 THEN s[i] + 32 ELSE s[i]]

\* str.startswith / str.endswith
startswith(s, p) == Len(s) >= Len(p) /\ SubSeq(s, 1, Len(p)) = p

endswith(s, p) == Len(s) >= Len(p) /\ SubSeq(s, Len(s) - Len(p) + 1, Len(s)) = p

\* str.replace(old, new) for one-character old and new
replace(s, old, new) == [i \in 1..Len(s) |-> IF s[i] = old THEN new ELSE s[i]]

\* os.path.splitext(filename)[1] for a name that holds no separator: the text
\* from the last "." on, unless only "." come before it (leading dots are no
\* extension)
splitext(filename) ==
  LET dots == {i \in 1..Len(filename) : filename[i] = 46}
  IN  IF dots = {} THEN <<>>
      ELSE LET dotIndex == CHOOSE i \in dots : \A j \in dots : j <= i
           IN  IF \E k \in 1..(dotIndex - 1) : filename[k] # 46
               THEN SubSeq(filename, dotIndex, Len(filename))
               ELSE <<>>

\* s < t in Python's order on str (code point by code point, a prefix first)
StrLess(s, t) ==
  \E k \in 1..(Len(t)) :
     /\ k <= Len(s) + 1
     /\ \A j \in 1..(k - 1) : s[j] = t[j]
     /\ (k = Len(s) + 1 \/ s[k] < t[k])

RECURSIVE sorted(_)
\* list.sort() on a list of str (insertion into the sorted tail)
sorted(names) ==
  IF names = <<>> THEN <<>>
  ELSE LET x    == Head(names)
           rest == sorted(Tail(names))
           k    == Cardinality({i \in 1..Len(rest) : StrLess(rest[i], x)})
       IN  SubSeq(rest, 1, k) \o <<x>> \o SubSeq(rest, k + 1, Len(rest))

\* os.path.join of the components of a relative path
RECURSIVE JoinPath(_)
JoinPath(parts) ==
  IF parts = <<>> THEN <<>>
  ELSE IF Len(parts) = 1 THEN parts[1]
  ELSE parts[1] \o <<47>> \o JoinPath(Tail(parts))

(***************************************************************************)
(* Codecs and text-mode reading: open(file_path, 'r', encoding=...).read() *)
(***************************************************************************)
\* the first code point of a strict UTF-8 byte string b (not empty): n bytes
\* taken, or n = 0 when b does not start with a well-formed sequence
utf_8_step(b) ==
  LET b1 == b[1]
      cont(i) == Len(b) >= i /\ b[i] >= 128 /\ b[i] <= 191
  IN  IF b1 < 128 THEN [n |-> 1, cp |-> b1]
      ELSE IF b1 >= 194 /\ b1 <= 223 /\ cont(2)
        THEN [n |-> 2, cp |-> (b1 - 192) * 64 + (b[2] - 128)]
      ELSE IF /\ b1 >= 224 /\ b1 <= 239 /\ cont(2) /\ cont(3)
              /\ (b1 = 224 => b[2] >= 160)
              /\ (b1 = 237 => b[2] <= 159)
        THEN [n |-> 3, cp |-> (b1 - 224) * 4096 + (b[2] - 128) * 64 + (b[3] - 128)]
      ELSE IF /\ b1 >= 240 /\ b1 <= 244 /\ cont(2) /\ cont(3) /\ cont(4)
              /\ (b1 = 240 => b[2] >= 144)
              /\ (b1 = 244 => b[2] <= 143)
        THEN [n |-> 4, cp |-> (b1 - 240) * 262144 + (b[2] - 128) * 4096
                              + (b[3] - 128) * 64 + (b[4] - 128)]
      ELSE [n |-> 0, cp |-> 0]

RECURSIVE utf_8_decode(_)
\* bytes.decode('utf-8'), strict
utf_8_decode(b) ==
  IF b = <<>> THEN [ok |-> TRUE, text |-> <<>>]
  ELSE LET s == utf_8_step(b)
       IN  IF s.n = 0 THEN [ok |-> FALSE, text |-> <<>>]
           ELSE LET r == utf_8_decode(SubSeq(b, s.n + 1, Len(b)))
                IN  IF r.ok THEN [ok |-> TRUE, text |-> <<s.cp>> \o r.text]
                    ELSE r

\* str.encode('utf-8') of one code point
utf_8_encode_cp(c) ==
  IF c < 128 THEN <<c>>
  ELSE IF c < 2048 THEN <<192 + (c \div 64), 128 + (c % 64)>>
  ELSE IF c < 65536
    THEN <<224 + (c \div 4096), 128 + ((c \div 64) % 64), 128 + (c % 64)>>
  ELSE <<240 + (c \div 262144), 128 + ((c \div 4096) % 64),
         128 + ((c \div 64) % 64), 128 + (c % 64)>>

RECURSIVE utf_8_encode(_)
\* str.encode('utf-8'): ASCII text is its own encoding, other text is encoded
\* code point by code point (split in halves to keep the recursion shallow)
utf_8_encode(text) ==
  IF \A i \in 1..Len(text) : text[i] < 128 THEN text
  ELSE IF Len(text) = 1 THEN utf_8_encode_cp(text[1])
  ELSE LET h == Len(text) \div 2
       IN  utf_8_encode(SubSeq(text, 1, h)) \o utf_8_encode(SubSeq(text, h + 1, Len(text)))

\* the codec Python finds for an encoding name, "" when the lookup fails
codecs_lookup(encoding) ==
  IF encoding \in {"utf-8", "UTF-8"} THEN "utf_8"
  ELSE IF encoding \in {"ascii"} THEN "ascii"
  ELSE IF encoding \in {"latin-1", "ISO-8859-1"} THEN "latin_1"
  ELSE ""

\* bytes.decode(encoding), strict
decode(encoding, b) ==
  LET codec == codecs_lookup(encoding)
  IN  IF codec = "utf_8" THEN utf_8_decode(b)
      ELSE IF codec = "ascii"
        THEN IF \A i \in 1..Len(b) : b[i] < 128 THEN [ok |-> TRUE, text |-> b]
             ELSE [ok |-> FALSE, text |-> <<>>]
      ELSE [ok |-> TRUE, text |-> b]  \* latin_1: every byte is its code point

RECURSIVE universal_newlines(_)
\* text-mode reading with newline=None: "\r\n" and "\r" are read as "\n"
universal_newlines(text) ==
  IF text = <<>> THEN <<>>
  ELSE IF text[1] = 13
    THEN IF Len(text) >= 2 /\ text[2] = 10
         THEN <<10>> \o universal_newlines(SubSeq(text, 3, Len(text)))
         ELSE <<10>> \o universal_newlines(Tail(text))
  ELSE <<text[1]>> \o universal_newlines(Tail(text))

\* with open(file_path, 'r', encoding=encoding) as f: f.read()
\* the file is opened first (OSError), then the codec is looked up
\* (LookupError), then the bytes are decoded (UnicodeDecodeError)
open_read(encoding, b, ioerror) ==
  IF ioerror THEN [outcome |-> "OSError", text |-> <<>>]
  ELSE IF codecs_lookup(encoding) = "" THEN [outcome |-> "LookupError", text |-> <<>>]
  ELSE LET d == decode(encoding, b)
       IN  IF d.ok THEN [outcome |-> "ok", text |-> universal_newlines(d.text)]
           ELSE [outcome |-> "UnicodeDecodeError", text |-> <<>>]

(***************************************************************************)
(* Reader.  The environment of one call: det, what chardet.detect reports  *)
(* (encoding "" is None, confidence in percent), and io, the opens of the  *)
(* file that raise OSError: 0 is the open in detect_encoding, k the k-th   *)
(* decode attempt.                                                         *)
(***************************************************************************)
SampleSize == 5000

ConfidenceThreshold == 70

sample(b) == SubSeq(b, 1, Min(Len(b), SampleSize))

\* chardet.detect was not called
NoDetection == [encoding |-> "", confidence |-> 0]

\* src/directorytomarkdown.py detect_encoding
dtm_detect_encoding(available, b, det, io) ==
  IF ~available THEN "utf-8"
  ELSE IF 0 \in io THEN "utf-8"
  ELSE IF sample(b) = <<>> THEN "utf-8"
  ELSE IF det.encoding # "" /\ det.confidence > ConfidenceThreshold THEN det.encoding
  ELSE "utf-8"

\* src/tollm.py detect_encoding (the lambda of __main__ when chardet is off)
tollm_detect_encoding(available, b, det, io) ==
  IF ~available THEN "utf-8"
  ELSE IF 0 \in io THEN "utf-8"
  ELSE IF det.encoding # "" THEN det.encoding
  ELSE "utf-8"

Range(s) == {s[i] : i \in 1..Len(s)}

\* src/directorytomarkdown.py get_file_content: the list of encodings
encodings_to_try(detected_encoding) ==
  LET a == <<"utf-8">>
      b == IF detected_encoding \notin Range(a) THEN Append(a, detected_encoding) ELSE a
  IN  IF "latin-1" \notin Range(b) THEN Append(b, "latin-1") ELSE b

NoContent(attempts) == [ok |-> FALSE, raised |-> FALSE, content |-> <<>>, attempts |-> attempts]

RECURSIVE dtm_attempts(_, _, _, _, _)
\* src/directorytomarkdown.py get_file_content: the loop, from attempt k
dtm_attempts(encs, k, b, io, attempts) ==
  IF k > Len(encs) THEN NoContent(attempts)
  ELSE LET r   == open_read(encs[k], b, k \in io)
           log == Append(attempts, [encoding |-> encs[k], outcome |-> r.outcome])
       IN  IF r.outcome = "ok"
             THEN [ok |-> TRUE, raised |-> FALSE, content |-> r.text, attempts |-> log]
           ELSE IF r.outcome = "UnicodeDecodeError"
             THEN dtm_attempts(encs, k + 1, b, io, log)
           ELSE NoContent(log)  \* except (IOError, OSError), except Exception

\* src/directorytomarkdown.py get_file_content; sampled: the detector read
\* its sample of the file; reported: what chardet.detect returned, if called
dtm_get_file_content(available, b, det, io) ==
  LET detected_encoding == dtm_detect_encoding(available, b, det, io)
      r == dtm_attempts(encodings_to_try(detected_encoding), 1, b, io, <<>>)
      s == available /\ 0 \notin io
  IN  [ok |-> r.ok, raised |-> r.raised, content |-> r.content, attempts |-> r.attempts,
       sampled |-> s,
       reported |-> IF s /\ sample(b) # <<>> THEN det ELSE NoDetection]

\* src/tollm.py get_file_content
tollm_get_file_content(available, b, det, io) ==
  LET r1 == open_read("utf-8", b, 1 \in io)
      l1 == <<[encoding |-> "utf-8", outcome |-> r1.outcome]>>
  IN  IF r1.outcome = "ok"
        THEN [ok |-> TRUE, raised |-> FALSE, content |-> r1.text, attempts |-> l1,
              sampled |-> FALSE, reported |-> NoDetection]
      ELSE IF r1.outcome # "UnicodeDecodeError"  \* except IOError, except Exception
        THEN NoContent(l1) @@ [sampled |-> FALSE, reported |-> NoDetection]
      ELSE
        LET encoding == tollm_detect_encoding(available, b, det, io)
            s  == available /\ 0 \notin io
            d  == IF s THEN det ELSE NoDetection
            r2 == open_read(encoding, b, 2 \in io)
            l2 == Append(l1, [encoding |-> encoding, outcome |-> r2.outcome])
        IN  IF r2.outcome = "ok"
              THEN [ok |-> TRUE, raised |-> FALSE, content |-> r2.text, attempts |-> l2,
                    sampled |-> s, reported |-> d]
            ELSE IF r2.outcome = "OSError"
              \* raised inside the handler of UnicodeDecodeError: the except
              \* clauses beside it do not apply, the exception leaves the function
              THEN [ok |-> FALSE, raised |-> TRUE, content |-> <<>>, attempts |-> l2,
                    sampled |-> s, reported |-> d]
            ELSE
              LET r3 == open_read("latin-1", b, 3 \in io)
                  l3 == Append(l2, [encoding |-> "latin-1", outcome |-> r3.outcome])
              IN  IF r3.outcome = "ok"
                    THEN [ok |-> TRUE, raised |-> FALSE, content |-> r3.text,
                          attempts |-> l3, sampled |-> s, reported |-> d]
                  ELSE NoContent(l3) @@ [sampled |-> s, reported |-> d]

get_file_content(program, available, b, det, io) ==
  IF program = "dtm" THEN dtm_get_file_content(available, b, det, io)
  ELSE tollm_get_file_content(available, b, det, io)

(***************************************************************************)
(* Filter and formatter of process_directory.                              *)
(***************************************************************************)
\* faulty variant: the exclusion looks at the extension and forgets the file name
is_excluded_by_extension_only(program, config, filename) ==
  lower(splitext(filename)) \in config.excluded_files

\* "Check against excluded files/extensions"
is_excluded(program, config, filename) ==
  LET extension_lower == lower(splitext(filename))
  IN  IF program = "dtm"
        THEN \/ filename \in config.excluded_files
             \/ (extension_lower # <<>> /\ extension_lower \in config.excluded_files)
        ELSE \/ filename \in config.excluded_files
             \/ extension_lower \in config.excluded_files

is_includable_name(config, filename) == filename \in config.included

is_includable_ext(config, filename) == lower(splitext(filename)) \in config.included

\* what the filter does with a file name: "excluded", "notincluded" or "read"
file_filter(program, config, filename) ==
  IF is_excluded(program, config, filename) THEN "excluded"
  ELSE IF ~is_includable_ext(config, filename) /\ ~is_includable_name(config, filename)
    THEN "notincluded"
  ELSE "read"

lang_key(program, config, filename) ==
  IF program = "dtm"
    THEN IF is_includable_name(config, filename) THEN filename
         ELSE lower(splitext(filename))
    ELSE IF is_includable_ext(config, filename) THEN lower(splitext(filename))
         ELSE filename

\* LANGUAGE_MAP.get(lang_key, '')
language_of(program, config, filename) ==
  LET k == lang_key(program, config, filename)
  IN  IF k \in DOMAIN config.language_map THEN config.language_map[k] ELSE <<>>

os_sep == 47

\* faulty variant: the newline before the closing fence is appended always
section_newline_always(program, rel_file_path, language, content) ==
  << <<45, 45, 45, 32, 70, 105, 108, 101, 58, 32>> \o rel_file_path \o <<32, 45, 45, 45, 10>>,
     <<96, 96, 96>> \o language \o <<10>>,
     content, <<10>>, <<96, 96, 96, 10, 10>> >>

\* faulty variant: the newline before the closing fence is never appended
section_newline_never(program, rel_file_path, language, content) ==
  << <<45, 45, 45, 32, 70, 105, 108, 101, 58, 32>> \o rel_file_path \o <<32, 45, 45, 45, 10>>,
     <<96, 96, 96>> \o language \o <<10>>,
     content, <<96, 96, 96, 10, 10>> >>

\* faulty variant: the closing fence is not followed by an empty line
section_without_spacing(program, rel_file_path, language, content) ==
  << <<45, 45, 45, 32, 70, 105, 108, 101, 58, 32>> \o rel_file_path \o <<32, 45, 45, 45, 10>>,
     <<96, 96, 96>> \o language \o <<10>>,
     content \o (IF endswith(content, <<10>>) THEN <<>> ELSE <<10>>),
     <<96, 96, 96, 10>> >>

\* the fragments appended to output_content for one file
section(program, rel_file_path, language, content) ==
  LET path_for_display == replace(rel_file_path, os_sep, 47)
      newline == IF program = "dtm"
                   THEN content # <<>> /\ ~endswith(content, <<10>>)
                   ELSE ~endswith(content, <<10>>)
  IN  << <<45, 45, 45, 32, 70, 105, 108, 101, 58, 32>> \o path_for_display
             \o <<32, 45, 45, 45, 10>>,               \* "--- File: {path} ---\n"
         <<96, 96, 96>> \o language \o <<10>>,        \* three backticks, language, "\n"
         content >>
      \o (IF newline THEN << <<10>> >> ELSE <<>>)
      \o << <<96, 96, 96, 10, 10>> >>                 \* three backticks, "\n\n"

\* dirs[:] = [d for d in dirs if ...]
prune(program, config, dirs) ==
  IF program = "dtm"
    THEN SelectSeq(dirs, LAMBDA d : d \notin config.excluded_dirs /\ ~startswith(d, <<46>>))
    ELSE SelectSeq(dirs, LAMBDA d : d \notin config.excluded_dirs)

create_llm_header(input_dir_abs_path) ==
  LLM_HEADER_BEFORE_PATH \o input_dir_abs_path \o LLM_HEADER_AFTER_PATH

\* os.path.abspath(input_dir) of the runs modelled: "/p"
abs_input_dir == <<47, 112>>

(***************************************************************************)
(* The file system under input_dir.  A path is the sequence of the names   *)
(* from the scan root down (<<>> is the root itself).  listing[p] is what  *)
(* os.walk finds in directory p, in scandir order: dirs holds the          *)
(* directories and the symbolic links to directories, files everything     *)
(* else.  links is the set of paths that are symbolic links; the listing   *)
(* and the data of a link are those of its target.                         *)
(***************************************************************************)
MaxLen == 3

\* "\n", "\r", "a", and 0xC3 0xA9: together U+00E9 in UTF-8, alone not UTF-8
ByteAlphabet == {10, 13, 97, 169, 195}

RECURSIVE ByteStrings(_)
ByteStrings(n) ==
  IF n = 0 THEN {<<>>}
  ELSE LET shorter == ByteStrings(n - 1)
       IN  shorter \cup {Append(s, b) : s \in {t \in shorter : Len(t) = n - 1}, b \in ByteAlphabet}

Contents == ByteStrings(MaxLen)

\* A tree is named by its parameters.  shape "walk": root holds b.py, a.py (a
\* link when linked), d1/ and, when linked, ln -> a directory; d1 holds f1 and
\* d2/; d2 holds y.md; the target of ln holds z.py.  shape "file": root holds
\* the one regular file f1 with the bytes data.
TreeOf(t) ==
  LET a_py == <<97, 46, 112, 121>>
      b_py == <<98, 46, 112, 121>>
      y_md == <<121, 46, 109, 100>>
      z_py == <<122, 46, 112, 121>>
      ln   == <<108, 110>>
  IN  IF t.shape = "file"
        THEN [ listing |-> (<<>> :> [dirs |-> <<>>, files |-> <<t.f1>>]),
               links   |-> {},
               data    |-> (<<t.f1>> :> t.data) ]
        ELSE [ listing |->
                 (<<>> :> [dirs  |-> IF t.linked THEN <<t.d1, ln>> ELSE <<t.d1>>,
                           files |-> <<b_py, a_py>>])
                 @@ (<<t.d1>> :> [dirs |-> <<t.d2>>, files |-> <<t.f1>>])
                 @@ (<<t.d1, t.d2>> :> [dirs |-> <<>>, files |-> <<y_md>>])
                 @@ (<<ln>> :> [dirs |-> <<>>, files |-> <<z_py>>]),
               links |-> IF t.linked THEN {<<ln>>, <<a_py>>} ELSE {},
               data |->
                 (<<b_py>> :> <<97>>) @@ (<<a_py>> :> <<97, 10>>)
                 @@ (<<t.d1, t.f1>> :> t.data) @@ (<<t.d1, t.d2, y_md>> :> <<>>)
                 @@ (<<ln, z_py>> :> <<98, 10>>) ]

DirNames1 ==
  { <<115, 114, 99>>,                                              \* src
    <<110, 111, 100, 101, 95, 109, 111, 100, 117, 108, 101, 115>>, \* node_modules
    <<46, 103, 105, 116, 104, 117, 98>> }                          \* .github

DirNames2 ==
  { <<108, 105, 98>>,          \* lib
    <<98, 117, 105, 108, 100>> }  \* build

FileNames1 ==
  { <<120, 46, 106, 115>>,        \* x.js
    <<120, 46, 112, 110, 103>> }  \* x.png

WalkTrees ==
  [shape : {"walk"}, d1 : DirNames1, d2 : DirNames2, f1 : FileNames1, linked : BOOLEAN,
   data : {<<233>>}]

\* a scan root that holds one regular file a.py, of any content
FileTrees ==
  [shape : {"file"}, d1 : {<<>>}, d2 : {<<>>}, f1 : {<<97, 46, 112, 121>>},
   linked : {FALSE}, data : Contents]

\* file names for the filter: by name, by extension, both, neither, upper case,
\* leading and trailing dots
FileNames ==
  {
    <<97, 46, 112, 121>>,  \* a.py
    <<65, 46, 80, 89>>,  \* A.PY
    <<97, 46, 112, 110, 103>>,  \* a.png
    <<97>>,  \* a
    <<68, 111, 99, 107, 101, 114, 102, 105, 108, 101>>,  \* Dockerfile
    <<100, 111, 99, 107, 101, 114, 102, 105, 108, 101>>,  \* dockerfile
    <<68, 111, 99, 107, 101, 114, 102, 105, 108, 101, 46, 108, 111, 103>>,  \* Dockerfile.log
    <<112, 97, 99, 107, 97, 103, 101, 45, 108, 111, 99, 107, 46, 106, 115, 111, 110>>,  \* package-lock.json
    <<120, 46, 106, 115, 111, 110>>,  \* x.json
    <<46, 103, 105, 116, 105, 103, 110, 111, 114, 101>>,  \* .gitignore
    <<46, 101, 110, 118>>,  \* .env
    <<46, 108, 111, 103>>,  \* .log
    <<46, 112, 121>>,  \* .py
    <<84, 104, 117, 109, 98, 115, 46, 100, 98>>,  \* Thumbs.db
    <<97, 46, 116, 97, 114, 46, 103, 122>>,  \* a.tar.gz
    <<97, 46>>,  \* a.
    <<97, 46, 98, 46, 112, 121>>,  \* a.b.py
    <<46, 46, 112, 121>>,  \* ..py
    <<121, 97, 114, 110, 46, 108, 111, 99, 107>>,  \* yarn.lock
    <<120, 46, 100, 111, 99, 107, 101, 114, 102, 105, 108, 101>>,  \* x.dockerfile
    <<46, 68, 83, 95, 83, 116, 111, 114, 101>>,  \* .DS_Store
    <<67, 77, 97, 107, 101, 76, 105, 115, 116, 115, 46, 116, 120, 116>>,  \* CMakeLists.txt
    <<77, 97, 107, 101, 102, 105, 108, 101>>,  \* Makefile
    <<97, 46, 74, 80, 71>>,  \* a.JPG
    <<82, 69, 65, 68, 77, 69, 46, 77, 68>>,  \* README.MD
    <<97, 46, 116, 120, 116, 46, 98, 97, 107>>  \* a.txt.bak
  }

\* a scan root that holds one regular file of any of these names
NameTrees ==
  [shape : {"file"}, d1 : {<<>>}, d2 : {<<>>}, f1 : FileNames, linked : {FALSE},
   data : {<<97>>}]

TreeTable == [t \in WalkTrees \cup FileTrees \cup NameTrees |-> TreeOf(t)]

\* the shipped configuration and three edited ones ("Add or remove as needed")
Configurations ==
  [ shipped |-> DefaultConfig,
    \* CMakeLists.txt is added to INCLUDED_EXTENSIONS
    name_included |->
      [DefaultConfig EXCEPT !.included = @ \cup {<<67, 77, 97, 107, 101, 76, 105, 115, 116, 115, 46, 116, 120, 116>>}],
    \* 'a.py': 'special' is added to LANGUAGE_MAP
    name_mapped |->
      [DefaultConfig EXCEPT !.language_map = @ @@ (<<97, 46, 112, 121>> :> <<115, 112, 101, 99, 105, 97, 108>>)],
    \* Makefile is added to INCLUDED_EXTENSIONS, 'Makefile': 'makefile' to LANGUAGE_MAP
    name_included_and_mapped |->
      [DefaultConfig EXCEPT !.included = @ \cup {<<77, 97, 107, 101, 102, 105, 108, 101>>},
                            !.language_map = @ @@ (<<77, 97, 107, 101, 102, 105, 108, 101>> :> <<109, 97, 107, 101, 102, 105, 108, 101>>)] ]

\* what chardet.detect may report
Detections ==
  [encoding : {"", "utf-8", "ascii", "ISO-8859-1", "EUC-TW"}, confidence : {70, 71}]

\* the opens of one file that fail: none, or one of them
IOFailures == {{}, {0}, {1}, {2}, {3}}

\* the destination before the run: absent, or a file holding "old"
Destinations == {[exists |-> FALSE, bytes |-> <<>>], [exists |-> TRUE, bytes |-> <<111, 108, 100>>]}

VARIABLES
  program,          \* "dtm": src/directorytomarkdown.py, "tollm": src/tollm.py
  chardet,          \* _CHARDET_AVAILABLE (dtm), not --no-chardet (tollm)
  reports_kept,     \* history: whether history keeps what chardet.detect reported
  configuration,    \* which configuration literals the program holds
  input_is_dir,     \* os.path.isdir(input_dir)
  input_tree,       \* which file system lies under input_dir
  pc,               \* "start", "walking", "writing", "done", "failed"
  error,            \* "none", "input", "write", "uncaught"
  pending,          \* os.walk: the directories still to yield, next first
  root,             \* the directory of the current iteration
  files,            \* the file names of root still to process
  output_content,   \* the list of fragments
  processed_files,  \* dtm: the set processed_files
  outfile,          \* the destination file
  outfile0,         \* history: the destination before the run
  opened,           \* history: how often the destination was opened for writing
  visited,          \* history: the directories os.walk yielded
  history           \* history: one record per file name the loop met

vars ==
  << program, chardet, reports_kept, configuration, input_is_dir, input_tree, pc, error, pending, root, files,
     output_content, processed_files, outfile, outfile0, opened, visited, history >>

\* the configuration literals and the file system of the run
config == Configurations[configuration]

tree == TreeTable[input_tree]

InitRun ==
  /\ program \in {"dtm", "tollm"}
  /\ chardet \in BOOLEAN
  /\ input_is_dir \in BOOLEAN
  /\ pc = "start"
  /\ error = "none"
  /\ pending = <<>>
  /\ root = <<>>
  /\ files = <<>>
  /\ output_content = <<>>
  /\ processed_files = {}
  /\ outfile = outfile0
  /\ opened = 0
  /\ visited = <<>>
  /\ history = <<>>

Init ==
  /\ outfile0 \in Destinations
  /\ InitRun
  /\ reports_kept = FALSE
  /\ configuration = "shipped"
  /\ input_tree \in WalkTrees

\* if not os.path.isdir(input_dir): print(...); return
Reject ==
  /\ pc = "start"
  /\ ~input_is_dir
  /\ pc' = "failed"
  /\ error' = "input"
  /\ UNCHANGED << program, chardet, reports_kept, configuration, input_is_dir, input_tree, pending, root, files,
                  output_content, processed_files, outfile, outfile0, opened, visited,
                  history >>

\* faulty variant: the walk begins without the check of input_dir
StartUnchecked ==
  /\ pc = "start"
  /\ pc' = "walking"
  /\ output_content' = IF program = "dtm" THEN <<create_llm_header(abs_input_dir)>> ELSE <<>>
  /\ pending' = << <<>> >>
  /\ UNCHANGED << program, chardet, reports_kept, configuration, input_is_dir, input_tree, error, root, files,
                  processed_files, outfile, outfile0, opened, visited, history >>

\* output_content = [llm_header] (dtm), [] (tollm); os.walk(abs_input_dir) begins
Start ==
  /\ pc = "start"
  /\ input_is_dir
  /\ pc' = "walking"
  /\ output_content' = IF program = "dtm" THEN <<create_llm_header(abs_input_dir)>> ELSE <<>>
  /\ pending' = << <<>> >>
  /\ UNCHANGED << program, chardet, reports_kept, configuration, input_is_dir, input_tree, error, root, files,
                  processed_files, outfile, outfile0, opened, visited, history >>

\* os.walk yields the next directory (top-down, symbolic links not followed);
\* the loop body prunes dirs in place and, in dtm, sorts files
NextDirectory ==
  /\ pc = "walking"
  /\ files = <<>>
  /\ pending # <<>>
  /\ LET top  == Head(pending)
         dirs == prune(program, config, tree.listing[top].dirs)
         into == SelectSeq(dirs, LAMBDA d : Append(top, d) \notin tree.links)
     IN  /\ root' = top
         /\ files' = IF program = "dtm" THEN sorted(tree.listing[top].files)
                     ELSE tree.listing[top].files
         /\ pending' = [i \in 1..Len(into) |-> Append(top, into[i])] \o Tail(pending)
         /\ visited' = Append(visited, top)
  /\ UNCHANGED << program, chardet, reports_kept, configuration, input_is_dir, input_tree, pc, error, output_content,
                  processed_files, outfile, outfile0, opened, history >>

Event(path, outcome, r, language, frag) ==
  [ path     |-> path,
    link     |-> path \in tree.links,
    outcome  |-> outcome,
    src      |-> tree.data[path],
    content  |-> r.content,
    language |-> language,
    frag     |-> frag,
    attempts |-> r.attempts,
    sampled  |-> r.sampled,
    reported |-> IF reports_kept THEN r.reported ELSE NoDetection ]

NotRead ==
  [ok |-> FALSE, raised |-> FALSE, content |-> <<>>, attempts |-> <<>>, sampled |-> FALSE,
   reported |-> NoDetection]

\* dtm only: the checks before the filter ("dup", "symlink", "notfile"), "" to go on
before_filter(path) ==
  IF program # "dtm" THEN ""
  ELSE IF path \in processed_files THEN "dup"
  ELSE IF path \in tree.links THEN "symlink"
  ELSE IF path \notin DOMAIN tree.data THEN "notfile"
  ELSE ""

\* one iteration of "for filename in files"
ProcessFile ==
  /\ pc = "walking"
  /\ files # <<>>
  /\ \E det \in Detections, io \in IOFailures :
       LET filename == Head(files)
           path     == Append(root, filename)
           skip     == before_filter(path)
           verdict  == IF skip # "" THEN skip ELSE file_filter(program, config, filename)
           r        == get_file_content(program, chardet, tree.data[path], det, io)
           language == language_of(program, config, filename)
       IN  IF verdict # "read"
             THEN /\ history' = Append(history, Event(path, verdict, NotRead, <<>>, 0))
                  /\ files' = Tail(files)
                  /\ UNCHANGED << pc, error, output_content, processed_files >>
           ELSE IF r.raised
             THEN /\ history' = Append(history, Event(path, "raised", r, <<>>, 0))
                  /\ pc' = "failed"
                  /\ error' = "uncaught"
                  /\ UNCHANGED << files, output_content, processed_files >>
           ELSE IF ~r.ok
             THEN /\ history' = Append(history, Event(path, "unreadable", r, <<>>, 0))
                  /\ files' = Tail(files)
                  /\ UNCHANGED << pc, error, output_content, processed_files >>
           ELSE /\ history' = Append(history, Event(path, "section", r, language,
                                                  Len(output_content) + 1))
                /\ output_content' =
                     output_content \o section(program, JoinPath(path), language, r.content)
                /\ processed_files' =
                     IF program = "dtm" THEN processed_files \cup {path} ELSE processed_files
                /\ files' = Tail(files)
                /\ UNCHANGED << pc, error >>
  /\ UNCHANGED << program, chardet, reports_kept, configuration, input_is_dir, input_tree, pending, root, outfile,
                  outfile0, opened, visited >>

\* faulty variant: the output is written when the files of a directory are
\* done, while os.walk still has directories to yield
EndWalkEarly ==
  /\ pc = "walking"
  /\ files = <<>>
  /\ pc' = IF program = "dtm" /\ output_content = <<>> THEN "done" ELSE "writing"
  /\ UNCHANGED << program, chardet, reports_kept, configuration, input_is_dir, input_tree, error,
                  pending, root, files, output_content, processed_files, outfile, outfile0,
                  opened, visited, history >>

\* os.walk is exhausted; dtm returns here when output_content is empty
EndWalk ==
  /\ pc = "walking"
  /\ files = <<>>
  /\ pending = <<>>
  /\ pc' = IF program = "dtm" /\ output_content = <<>> THEN "done" ELSE "writing"
  /\ UNCHANGED << program, chardet, reports_kept, configuration, input_is_dir, input_tree, error, pending, root, files,
                  output_content, processed_files, outfile, outfile0, opened, visited,
                  history >>

\* with open(output_file, 'w', encoding='utf-8') as f: f.write("".join(output_content))
WriteOutput ==
  /\ pc = "writing"
  /\ outfile' = [exists |-> TRUE, bytes |-> utf_8_encode(Concat(output_content))]
  /\ opened' = opened + 1
  /\ pc' = "done"
  /\ UNCHANGED << program, chardet, reports_kept, configuration, input_is_dir, input_tree, error, pending, root, files,
                  output_content, processed_files, outfile0, visited, history >>

\* the same statement raising IOError: open fails and the destination is as
\* it was, or the write fails after open truncated it
WriteFails ==
  /\ pc = "writing"
  /\ outfile' \in {outfile, [exists |-> TRUE, bytes |-> <<>>]}
  /\ opened' = opened + 1
  /\ pc' = "failed"
  /\ error' = "write"
  /\ UNCHANGED << program, chardet, reports_kept, configuration, input_is_dir, input_tree, pending, root, files,
                  output_content, processed_files, outfile0, visited, history >>

Next ==
  \/ Reject
  \/ Start
  \/ NextDirectory
  \/ ProcessFile
  \/ EndWalk
  \/ WriteOutput
  \/ WriteFails

Spec == Init /\ [][Next]_vars

\* one file of any content under the scan root
InitFile ==
  /\ outfile0 = [exists |-> FALSE, bytes |-> <<>>]
  /\ InitRun
  /\ reports_kept = TRUE
  /\ configuration = "shipped"
  /\ input_tree \in FileTrees

SpecFile == InitFile /\ [][Next]_vars

\* one file of any name under the scan root, under any configuration
InitCfg ==
  /\ outfile0 = [exists |-> FALSE, bytes |-> <<>>]
  /\ InitRun
  /\ reports_kept = FALSE
  /\ configuration \in DOMAIN Configurations
  /\ input_tree \in NameTrees

SpecCfg == InitCfg /\ [][Next]_vars

(***************************************************************************)
(* Properties.                                                             *)
(***************************************************************************)
Last(s) == s[Len(s)]

Sections == {i \in 1..Len(history) : history[i].outcome = "section"}

\* the fragments of output_content between the opening fence of section i and
\* its closing fence, joined
Between(i) ==
  LET later == {j \in Sections : j > i}
      next  == IF later = {} THEN Len(output_content) + 1
               ELSE history[CHOOSE j \in later : \A k \in later : j <= k].frag
  IN  Concat(SubSeq(output_content, history[i].frag + 2, next - 2))

\* C1: a file name that reaches the filter step is handed to get_file_content
\* if and only if the name or its lower-cased extension is in
\* INCLUDED_EXTENSIONS and neither is in EXCLUDED_FILES_OR_EXTENSIONS
C1_FilterIncludedAndNotExcluded ==
  \A i \in 1..Len(history) :
    LET ev == history[i]
        f  == Last(ev.path)
        e  == lower(splitext(f))
    IN  ev.outcome \notin {"dup", "symlink", "notfile"} =>
          ( ev.outcome \in {"section", "unreadable", "raised"}
            <=> /\ (f \in config.included \/ e \in config.included)
                /\ ~(f \in config.excluded_files \/ e \in config.excluded_files) )

\* C1 witness: a file name whose extension is included and which is itself
\* excluded (package-lock.json) reached the filter and was skipped as excluded
C1_Witness ==
  /\ Len(history) = 1
  /\ LET f == Last(history[1].path)
         e == lower(splitext(f))
     IN  /\ e \in config.included
         /\ f \in config.excluded_files
         /\ history[1].outcome = "excluded"

\* C2: process_directory never descends into a directory whose name is in
\* EXCLUDED_DIRECTORIES or begins with ".", and no file beneath one gets a section
C2_NothingBelowExcludedOrHiddenDirectory ==
  LET barred(d) == d \in config.excluded_dirs \/ startswith(d, <<46>>)
  IN  /\ \A i \in 1..Len(visited) : \A k \in 1..Len(visited[i]) : ~barred(visited[i][k])
      /\ \A i \in Sections :
           \A k \in 1..(Len(history[i].path) - 1) : ~barred(history[i].path[k])

\* C3 as claimed: the bytes written between the fences of a file whose bytes end
\* in a newline are the bytes of the file
C3_RoundTripByteIdentical ==
  \A i \in Sections :
    endswith(history[i].src, <<10>>) => utf_8_encode(Between(i)) = history[i].src

\* C3 amended: for a file whose bytes end in a newline, the bytes written between
\* the fences are the bytes of the file exactly when the file is valid UTF-8 and
\* holds no carriage return
C3_RoundTripUtf8WithoutCR ==
  \A i \in Sections :
    endswith(history[i].src, <<10>>) =>
      ( utf_8_encode(Between(i)) = history[i].src
        <=> (utf_8_decode(history[i].src).ok /\ 13 \notin Range(history[i].src)) )

\* C3 witness: a section for the file 0xC3 0xA9 "\n", written back as it is
C3_Witness ==
  \E i \in Sections :
    /\ history[i].src = <<195, 169, 10>>
    /\ utf_8_encode(Between(i)) = history[i].src

\* C4 as claimed: content that does not end in a newline, the empty content
\* included, is followed by exactly one newline before the closing fence
C4_OneNewlineAppended ==
  \A i \in Sections :
    ~endswith(history[i].content, <<10>>) => Between(i) = history[i].content \o <<10>>

\* C4 amended: content that is not empty and does not end in a newline is
\* followed by exactly one newline; content that ends in a newline is left as it
\* is; empty content gets one newline in tollm.py and nothing in
\* directorytomarkdown.py
C4_OneNewlineAppendedUnlessEmpty ==
  \A i \in Sections :
    LET content == history[i].content
    IN  /\ output_content[history[i].frag + 2] = content
        /\ Between(i) = IF endswith(content, <<10>>) THEN content
                        ELSE IF content = <<>> /\ program = "dtm" THEN <<>>
                        ELSE content \o <<10>>

\* C4 witness: a section for the content "a", with "a\n" between its fences
C4_Witness ==
  \E i \in Sections :
    /\ history[i].content = <<97>>
    /\ Between(i) = <<97, 10>>

\* C5: a file whose opens all succeed is always decoded: get_file_content
\* returns None only after an OSError
C5_ReadableFileIsDecoded ==
  \A i \in 1..Len(history) :
    history[i].outcome = "unreadable" =>
      \E k \in 1..Len(history[i].attempts) : history[i].attempts[k].outcome = "OSError"

\* C6: no exception leaves get_file_content: an I/O error while reading one file
\* skips that file and the run goes on
C6_IOErrorSkipsOneFile ==
  /\ error # "uncaught"
  /\ \A i \in 1..Len(history) : history[i].outcome # "raised"

\* C7: when input_dir is not a directory the run ends with the error reported,
\* no directory walked, no file met, and the destination never opened: it is
\* as it was before the run
C7_RejectedInputWritesNothing ==
  ~input_is_dir =>
    /\ pc \in {"start", "failed"}
    /\ pc = "failed" => error = "input"
    /\ visited = <<>>
    /\ history = <<>>
    /\ output_content = <<>>
    /\ opened = 0
    /\ outfile = outfile0

\* C7 witness: the run was rejected and the file that was at the destination is
\* still there
C7_Witness ==
  /\ ~input_is_dir
  /\ pc = "failed"
  /\ error = "input"
  /\ outfile0.exists
  /\ outfile = outfile0

\* the header block of the output: the LLM header in dtm, nothing in tollm
HeaderBlock == IF program = "dtm" THEN create_llm_header(abs_input_dir) ELSE <<>>

\* the content of a section, newline-terminated
Terminated(content) == IF endswith(content, <<10>>) THEN content ELSE content \o <<10>>

RECURSIVE JoinWith(_, _)
JoinWith(parts, s) ==
  IF Len(parts) = 1 THEN parts[1] ELSE parts[1] \o s \o JoinWith(Tail(parts), s)

\* the text of all sections, in the order of the history, given the text of one
AllSections(Shape(_)) ==
  Concat([i \in 1..Len(history) |-> IF i \in Sections THEN Shape(history[i]) ELSE <<>>])

\* C8 as claimed: the output file is the header block and then, for each
\* section, the line "--- File: <path> ---", an empty line, the opening fence
\* with the language, the content newline-terminated, the closing fence, an
\* empty line
C8_SectionShapeWithBlankLine ==
  LET Shape(ev) ==
        <<45, 45, 45, 32, 70, 105, 108, 101, 58, 32>> \o JoinWith(ev.path, <<47>>)
          \o <<32, 45, 45, 45, 10>>
          \o <<10>>
          \o <<96, 96, 96>> \o ev.language \o <<10>>
          \o Terminated(ev.content)
          \o <<96, 96, 96, 10>>
          \o <<10>>
  IN  (pc = "done" /\ opened = 1) =>
        outfile.bytes = utf_8_encode(HeaderBlock \o AllSections(Shape))

\* C8 amended: the output file is the header block and then, for each section,
\* the line "--- File: <path> ---", at once the opening fence with the language,
\* the content newline-terminated (nothing at all for an empty file in
\* directorytomarkdown.py), the closing fence, an empty line
C8_SectionShape ==
  LET Shape(ev) ==
        <<45, 45, 45, 32, 70, 105, 108, 101, 58, 32>> \o JoinWith(ev.path, <<47>>)
          \o <<32, 45, 45, 45, 10>>
          \o <<96, 96, 96>> \o ev.language \o <<10>>
          \o (IF ev.content = <<>> /\ program = "dtm" THEN <<>> ELSE Terminated(ev.content))
          \o <<96, 96, 96, 10>>
          \o <<10>>
  IN  (pc = "done" /\ opened = 1) =>
        /\ outfile.exists
        /\ outfile.bytes = utf_8_encode(HeaderBlock \o AllSections(Shape))

\* C8 witness: an output file written with three sections or more, one of them
\* for a file two directories down
C8_Witness ==
  /\ pc = "done"
  /\ opened = 1
  /\ Cardinality(Sections) >= 3
  /\ \E i \in Sections : Len(history[i].path) = 3

\* C9: the language of the opening fence is LANGUAGE_MAP[filename] when the
\* file name is a key, else LANGUAGE_MAP[extension] when the lower-cased
\* extension is a key, else empty, whatever the configuration holds
C9_LanguageByNameThenExtension ==
  \A i \in Sections :
    LET f == Last(history[i].path)
        e == lower(splitext(f))
    IN  history[i].language =
          IF f \in DOMAIN config.language_map THEN config.language_map[f]
          ELSE IF e \in DOMAIN config.language_map THEN config.language_map[e]
          ELSE <<>>

\* C10: no section is read through a symbolic link, and no directory that is a
\* symbolic link is walked
C10_SymlinksNeverFollowed ==
  LET through(path) == \E k \in 1..Len(path) : SubSeq(path, 1, k) \in tree.links
  IN  /\ \A i \in 1..Len(visited) : ~through(visited[i])
      /\ \A i \in Sections : ~through(history[i].path)

\* the events of the files that were handed to get_file_content
Reads == {i \in 1..Len(history) : history[i].outcome \in {"section", "unreadable", "raised"}}

\* C11: a file of valid UTF-8 bytes is decoded by the first decode attempt,
\* which is strict UTF-8, and never reaches the fallback chain: no sample of
\* the file is read for the detector and no second or third attempt is made
\* (the first open failing with an I/O error ends the reading as well)
C11_Utf8FileNeverReachesFallback ==
  \A i \in Reads :
    utf_8_decode(history[i].src).ok =>
      /\ Len(history[i].attempts) = 1
      /\ history[i].attempts[1].encoding = "utf-8"
      /\ history[i].attempts[1].outcome \in {"ok", "OSError"}
      /\ ~history[i].sampled

\* the encoding the claim has the detector slot hold: the reported one when
\* its confidence exceeds 0.7, UTF-8 otherwise (nothing reported included)
SecondEncoding(e) ==
  IF e.reported.encoding # "" /\ e.reported.confidence > 70 THEN e.reported.encoding
  ELSE "utf-8"

\* UTF-8, the detector's encoding, Latin-1, no encoding twice
Chain(e) ==
  LET d == SecondEncoding(e)
  IN  <<"utf-8">> \o (IF d = "utf-8" THEN <<>> ELSE <<d>>)
                  \o (IF d = "latin-1" THEN <<>> ELSE <<"latin-1">>)

\* C12: in directorytomarkdown.py the decode attempts of a file are the
\* beginning of the chain UTF-8, detected encoding (when its confidence
\* exceeds 0.7), Latin-1: at most three, none twice, each attempt made only
\* after the ones before it failed, and the chain goes on until an attempt
\* succeeds (an I/O error ends the reading of the file)
C12_AttemptsFollowTheChain ==
  program = "dtm" =>
    \A i \in Reads :
      LET e == history[i]
          n == Len(e.attempts)
      IN  /\ n >= 1
          /\ n <= 3
          /\ n <= Len(Chain(e))
          /\ \A k \in 1..n : e.attempts[k].encoding = Chain(e)[k]
          /\ \A j, k \in 1..n : j # k => e.attempts[j].encoding # e.attempts[k].encoding
          /\ \A k \in 1..(n - 1) : e.attempts[k].outcome # "ok"
          /\ \/ e.attempts[n].outcome \in {"ok", "OSError"}
             \/ n = Len(Chain(e))

\* the position of a state of the run in start, walking, writing, done/failed
Rank(p) ==
  CASE p = "start" -> 0
    [] p = "walking" -> 1
    [] p = "writing" -> 2
    [] p \in {"done", "failed"} -> 3

RECURSIVE NonPruned(_)
\* the directories at and below p that the walk has to visit: those no
\* ancestor's pruning removed (a link to a directory is not walked)
NonPruned(p) ==
  LET kept == {d \in Range(prune(program, config, tree.listing[p].dirs)) :
                 Append(p, d) \notin tree.links}
  IN  {p} \cup UNION {NonPruned(Append(p, d)) : d \in kept}

\* C13, in every state: the destination is opened for writing at most once,
\* it is as it was before the run while the run is at start or walking, and
\* it is written only after the walk visited every non-pruned directory
C13_WriteOnceAfterTheWalk ==
  /\ pc \in {"start", "walking", "writing", "done", "failed"}
  /\ opened <= 1
  /\ pc \in {"start", "walking"} => opened = 0 /\ outfile = outfile0
  /\ (pc = "writing" \/ opened > 0) =>
       /\ Range(visited) = NonPruned(<<>>)
       /\ Len(visited) = Cardinality(NonPruned(<<>>))

\* C13, in every step: the run never moves back in start, walking, writing,
\* done/failed and never leaves done or failed; the buffer only grows at its
\* end; the destination changes or is opened only in the step out of writing
C13_StepForward ==
  /\ Rank(pc') >= Rank(pc)
  /\ Rank(pc) = 3 => pc' = pc
  /\ Len(output_content') >= Len(output_content)
  /\ SubSeq(output_content', 1, Len(output_content)) = output_content
  /\ pc # "walking" => output_content' = output_content \/ pc = "start"
  /\ (outfile' # outfile \/ opened' # opened) =>
       pc = "writing" /\ pc' \in {"done", "failed"} /\ opened' = opened + 1

\* C13: a run moves only through start, walking, writing, then done or
\* failed; the destination is opened and written at most once, only after
\* the walk has visited every non-pruned directory; the buffer is append-only
\* during the walk; nothing is written while the walk is in progress
C13_RunStateMachine == [] C13_WriteOnceAfterTheWalk /\ [][C13_StepForward]_vars

\* C13 witness: a run that walked three directories, appended sections to
\* the buffer and then wrote the destination, once
C13_Witness ==
  /\ pc = "done"
  /\ opened = 1
  /\ Len(visited) = 3
  /\ Sections # {}
  /\ outfile = [exists |-> TRUE, bytes |-> utf_8_encode(Concat(output_content))]

====
